---- MODULE Spec2Model ----
(***************************************************************************)
(* Model of speaker-splitter: timestamp_to_milliseconds, the per-speaker   *)
(* track compositor create_speaker_audio and the driving loops of the      *)
(* three front ends (speaker_splitter.process_audio, app.split_speakers,   *)
(* web_app.upload_files).                                                  *)
(*                                                                         *)
(* Units.  The code measures, slices and positions audio in milliseconds   *)
(* (len(audio), audio[start_ms:end_ms], overlay(position=start_ms)), so a  *)
(* waveform is modelled as a sequence with one signed 16-bit amplitude per *)
(* millisecond, together with its channel count and frame rate.  Index i   *)
(* of the code (0-based) is element i+1 of the sequence.                   *)
(*                                                                         *)
(* Timecodes.  A timecode string is modelled by the list of fields that    *)
(* time_str.replace(',', '.').split(':') yields.  A field is               *)
(*   [k |-> "int", v |-> n]            a digit string, e.g. "01"           *)
(*   [k |-> "dec", v |-> s, f |-> m]   "SS,mmm", e.g. "57,250"             *)
(*   [k |-> "junk"]                    anything int() and float() reject   *)
(* Numbers are unsigned, as in the format HH:MM:SS,mmm.                    *)
(*                                                                         *)
(* Samples.  Amplitudes are 16-bit, the sample width of the silent track   *)
(* the compositor starts from; pydub brings the two operands of overlay to *)
(* a common channel count and frame rate, which changes the format of a    *)
(* waveform and not the amplitude it has at a millisecond.                 *)
(***************************************************************************)
EXTENDS Integers, Sequences, FiniteSets, TLC

VARIABLES
    audio_file,        \* the source audio: [kind |-> "missing"] or a decoded waveform
    json_file,         \* the diarization document as uploaded
    pc,                \* position of the run: "start", "loop", "done", "failed"
    error,             \* the error reported by the run ("none" while there is none)
    speakers,          \* speakers still to be processed by the driving loop
    outputs,           \* exported tracks: output path (speaker) -> waveform
    exported,          \* speakers in the order their tracks were exported
    time_str,          \* input of timestamp_to_milliseconds (parser specification)
    total_milliseconds,\* its result
    ppc                \* "call" before, "ret" after timestamp_to_milliseconds

vars == <<audio_file, json_file, pc, error, speakers, outputs, exported,
          time_str, total_milliseconds, ppc>>

runVars == <<audio_file, json_file, pc, error, speakers, outputs, exported>>
parseVars == <<time_str, total_milliseconds, ppc>>

(***************************************************************************)
(* Bounds of the model.                                                    *)
(***************************************************************************)
MaxLen == 2        \* longest source waveform, in milliseconds
MaxSegs == 2       \* longest segment list
MaxHours == 1      \* largest HH of a well-formed timecode given to the parser
MaxMinutes == 1    \* largest MM
MaxSeconds == 59   \* largest SS

Min(a, b) == IF a < b THEN a ELSE b
Max(a, b) == IF a > b THEN a ELSE b

RECURSIVE Pow2(_)
Pow2(n) == IF n = 0 THEN 1 ELSE 2 * Pow2(n - 1)

(***************************************************************************)
(* Fields and timecodes.                                                   *)
(***************************************************************************)
IntField(n) == [k |-> "int", v |-> n]
DecField(s, m) == [k |-> "dec", v |-> s, f |-> m]
JunkField == [k |-> "junk"]

\* "HH:MM:SS,mmm"
Timecode(h, m, s, ms) == <<IntField(h), IntField(m), DecField(s, ms)>>
\* "bad-time"
BadTime == <<JunkField>>

IsWellFormed(ts) ==
    /\ Len(ts) = 3
    /\ ts[1].k = "int"
    /\ ts[2].k = "int"
    /\ ts[3].k = "dec"

\* the offset hours*3600000 + minutes*60000 + SS*1000 + mmm a timecode denotes
ExactMs(ts) == (ts[1].v * 3600 + ts[2].v * 60 + ts[3].v) * 1000 + ts[3].f

(***************************************************************************)
(* Double-precision arithmetic of line 142,                                *)
(*     int((hours * 3600 + minutes * 60 + seconds) * 1000)                 *)
(* with seconds = float("SS.mmm").  Three roundings to nearest-even happen: *)
(* float() rounds SS.mmm to a double s, the addition K + s rounds to a     *)
(* double t, and t * 1000 rounds to a double u; int() then truncates u.    *)
(* With V the exact offset, u >= V gives V and u < V gives V - 1.  The     *)
(* roundings are computed exactly from the binary expansion of mmm/1000,   *)
(* taken modulo 1000, so that only small integers occur.                   *)
(***************************************************************************)
RECURSIVE ILog2(_)
ILog2(n) == IF n < 2 THEN 0 ELSE 1 + ILog2(n \div 2)

RECURSIVE NegExp(_)
NegExp(N) == IF N >= 1000 THEN 0 ELSE NegExp(2 * N) - 1

\* floor(log2(N / 1000)), N >= 1: the binary exponent of the double N/1000
BinExp(N) == IF N >= 1000 THEN ILog2(N \div 1000) ELSE NegExp(N)

\* 2^n mod 1000, by repeated squaring
RECURSIVE Pow2Mod(_)
Pow2Mod(n) ==
    IF n = 0 THEN 1
    ELSE LET h == Pow2Mod(n \div 2)
         IN  (h * h * (IF n % 2 = 1 THEN 2 ELSE 1)) % 1000

\* (r * 2^n) mod 1000: what is left of r/1000 after n bits of its expansion
Rem(r, n) == (r * Pow2Mod(n)) % 1000

\* the next d bits of the expansion of r/1000, and the remainder left: <<bits, r'>>
RECURSIVE LowBits(_, _, _)
LowBits(acc, r, d) ==
    IF d = 0 THEN <<acc, r>>
    ELSE LowBits(2 * acc + (IF 2 * r >= 1000 THEN 1 ELSE 0), (2 * r) % 1000, d - 1)

\* int((K + float("SS.mmm")) * 1000) for integers K, SS >= 0 and 0 <= mmm <= 999
FloatMs(K, SS, mmm) ==
    LET V == (K + SS) * 1000 + mmm IN
    IF mmm = 0 THEN V
    ELSE
    LET Es == BinExp(SS * 1000 + mmm)      \* exponent of s
        Et == BinExp(V)                    \* exponent of t = K + s
        n2 == 52 - Et                      \* fraction bits kept by t
        d == Et - Es                       \* bits of s dropped by the addition
        r2 == Rem(mmm, n2)
        lb == LowBits(0, r2, d)
        up1 == IF lb[2] > 500 THEN 1 ELSE 0     \* float() rounds s up
        G == lb[1] + up1                        \* the dropped bits of s
        up == IF d = 0 THEN up1
              ELSE IF G > Pow2(d - 1) THEN 1
              ELSE IF G < Pow2(d - 1) THEN 0
              ELSE IF 2 * Rem(mmm, n2 - 1) >= 1000 THEN 1 ELSE 0   \* tie: to even
        c == 1000 * up - r2                \* t - (K + SS.mmm), in 1/1000 ulp(t)
        g9 == IF Et >= 0 THEN V < 1024 * Pow2(Et) ELSE V * Pow2(0 - Et) < 1024
        pow2 == V = Pow2(ILog2(V))
    IN  IF (c < -256 /\ (g9 \/ pow2)) \/ c < -512 THEN V - 1 ELSE V

(***************************************************************************)
(* timestamp_to_milliseconds.  int() accepts a digit string only, float()  *)
(* a digit string or SS.mmm; time_parts[i] raises IndexError when the      *)
(* field is absent.  Every exception is caught and 0 is returned; fields   *)
(* after the third are never read.                                         *)
(***************************************************************************)
ParseRaises(ts) ==
    \/ ts[1].k # "int"                     \* hours = int(time_parts[0])
    \/ Len(ts) < 2
    \/ ts[2].k # "int"                     \* minutes = int(time_parts[1])
    \/ Len(ts) < 3
    \/ ts[3].k = "junk"                    \* seconds = float(time_parts[2])

timestamp_to_milliseconds(ts) ==
    IF ParseRaises(ts) THEN 0
    ELSE LET hours == ts[1].v
             minutes == ts[2].v
         IN  IF ts[3].k = "int"
             THEN (hours * 3600 + minutes * 60 + ts[3].v) * 1000
             ELSE FloatMs(hours * 3600 + minutes * 60, ts[3].v, ts[3].f)

\* timecodes of the segments of a run: every offset up to the length of the longest
\* source (past the end of the shorter ones), and a malformed one
RunTimecodes == {Timecode(0, 0, 0, ms) : ms \in 0..MaxLen} \cup {BadTime}

\* timestamp_to_milliseconds on the timecodes of a run, tabulated
OffsetOf == [tc \in RunTimecodes |-> timestamp_to_milliseconds(tc)]

(***************************************************************************)
(* pydub.AudioSegment, as far as the program uses it.                      *)
(***************************************************************************)
Waveform(data, channels, frame_rate) ==
    [kind |-> "wav", data |-> data, channels |-> channels, frame_rate |-> frame_rate]

\* len(audio): the duration in milliseconds
AudioLen(seg) == Len(seg.data)

\* AudioSegment.silent(duration=d): d ms of zeros, mono, at pydub's default frame rate
SilentFrameRate == 11025
silent(duration) ==
    Waveform([i \in 1..duration |-> 0], 1, SilentFrameRate)

\* Faulty variants of GetSlice: the range taken from the beginning of the audio
\* instead of from start, and a reversed range put in order instead of left empty
GetSlice_from_zero(seg, start, end) ==
    LET s == Min(start, Len(seg.data))
        e == Min(end, Len(seg.data))
    IN  [seg EXCEPT !.data = IF e <= s THEN <<>> ELSE SubSeq(seg.data, 1, e - s)]

GetSlice_swapped(seg, start, end) ==
    LET s == Min(Min(start, end), Len(seg.data))
        e == Min(Max(start, end), Len(seg.data))
    IN  [seg EXCEPT !.data = IF e <= s THEN <<>> ELSE SubSeq(seg.data, s + 1, e)]

\* audio[start:end]: both ends are clamped to len(audio); end <= start gives no data
GetSlice(seg, start, end) ==
    LET s == Min(start, AudioLen(seg))
        e == Min(end, AudioLen(seg))
    IN  [seg EXCEPT !.data = IF e <= s THEN <<>> ELSE SubSeq(seg.data, s + 1, e)]

\* Faulty variant of AddSamples: the new sample replaces the old one
AddSamples_overwrite(a, b) == b

\* audioop.add on 16-bit samples: the sum, clipped to the sample range
Saturate(x) == IF x > 32767 THEN 32767 ELSE IF x < -32768 THEN -32768 ELSE x
AddSamples(a, b) == Saturate(a + b)

\* Faulty variant of overlay: the segment is appended (line 182, commented out)
overlay_append(seg1, seg2, position) ==
    [seg1 EXCEPT !.data = seg1.data \o seg2.data]

\* seg1.overlay(seg2, position): seg1[:position], then seg2 added to seg1 for as
\* long as seg1 lasts, then the rest of seg1; both are first brought to the larger
\* channel count and frame rate of the two
overlay(seg1, seg2, position) ==
    LET p == Min(position, AudioLen(seg1))
        remaining == AudioLen(seg1) - p
        n == Min(AudioLen(seg2), remaining)
    IN  Waveform(SubSeq(seg1.data, 1, p)
                   \o [k \in 1..n |-> AddSamples(seg1.data[p + k], seg2.data[k])]
                   \o SubSeq(seg1.data, p + n + 1, AudioLen(seg1)),
                 Max(seg1.channels, seg2.channels),
                 Max(seg1.frame_rate, seg2.frame_rate))

(***************************************************************************)
(* create_speaker_audio: the loop over segments_data['segments'] and the   *)
(* track it leaves in silent_audio.                                        *)
(***************************************************************************)
\* Faulty variants of the loop: one without the test on the speaker, one that
\* gives up at the first segment whose timecode does not parse
RECURSIVE OverlaySegments_any_speaker(_, _, _, _)
OverlaySegments_any_speaker(audio, silent_audio, segs, speaker_id) ==
    IF segs = <<>> THEN silent_audio
    ELSE LET segment == Head(segs)
             start_ms == OffsetOf[segment.start]
             end_ms == OffsetOf[segment.end]
         IN  OverlaySegments_any_speaker(audio,
                 overlay(silent_audio, GetSlice(audio, start_ms, end_ms), start_ms),
                 Tail(segs), speaker_id)

RECURSIVE OverlaySegments_stop_at_malformed(_, _, _, _)
OverlaySegments_stop_at_malformed(audio, silent_audio, segs, speaker_id) ==
    IF segs = <<>> THEN silent_audio
    ELSE LET segment == Head(segs)
             start_ms == OffsetOf[segment.start]
             end_ms == OffsetOf[segment.end]
         IN  IF segment.speaker # speaker_id
             THEN OverlaySegments_stop_at_malformed(audio, silent_audio, Tail(segs),
                                                    speaker_id)
             ELSE IF ParseRaises(segment.start) \/ ParseRaises(segment.end)
             THEN silent_audio
             ELSE OverlaySegments_stop_at_malformed(audio,
                      overlay(silent_audio, GetSlice(audio, start_ms, end_ms), start_ms),
                      Tail(segs), speaker_id)

\* Faulty variant of OverlaySegments: every segment is overlaid on a fresh silent
\* track, so that only the last segment of the speaker is kept
RECURSIVE OverlaySegments_last_wins(_, _, _, _)
OverlaySegments_last_wins(audio, silent_audio, segs, speaker_id) ==
    IF segs = <<>> THEN silent_audio
    ELSE LET segment == Head(segs)
             start_ms == OffsetOf[segment.start]
             end_ms == OffsetOf[segment.end]
             segment_audio == GetSlice(audio, start_ms, end_ms)
         IN  OverlaySegments_last_wins(audio,
                 IF segment.speaker = speaker_id
                 THEN overlay(silent(AudioLen(audio)), segment_audio, start_ms)
                 ELSE silent_audio,
                 Tail(segs), speaker_id)

RECURSIVE OverlaySegments(_, _, _, _)
OverlaySegments(audio, silent_audio, segs, speaker_id) ==
    IF segs = <<>> THEN silent_audio
    ELSE LET segment == Head(segs)
             start_ms == OffsetOf[segment.start]
             end_ms == OffsetOf[segment.end]
             segment_audio == GetSlice(audio, start_ms, end_ms)
         IN  OverlaySegments(audio,
                 IF segment.speaker = speaker_id
                 THEN overlay(silent_audio, segment_audio, start_ms)
                 ELSE silent_audio,
                 Tail(segs), speaker_id)

\* Faulty variant of SpeakerTrack: the segments are overlaid on the source itself
SpeakerTrack_on_source(audio, segs, speaker_id) ==
    OverlaySegments(audio, audio, segs, speaker_id)

SpeakerTrack(audio, segs, speaker_id) ==
    OverlaySegments(audio, silent(AudioLen(audio)), segs, speaker_id)

\* Faulty variant of SpeakerSet: the speaker of the first segment only
SpeakerSet_first_only(doc) ==
    IF doc.has_segments /\ doc.segments # <<>> THEN {doc.segments[1].speaker} ELSE {}

\* segment['speaker'] raises KeyError on a record without that key
LacksSpeaker(doc) ==
    /\ doc.has_segments
    /\ \E i \in 1..Len(doc.segments) : "speaker" \notin DOMAIN doc.segments[i]

\* segment['start'] or segment['end'] raises KeyError on a record of the speaker
\* without that key
LacksTimes(doc, speaker_id) ==
    \E i \in 1..Len(doc.segments) :
        /\ doc.segments[i].speaker = speaker_id
        /\ {"start", "end"} \ DOMAIN doc.segments[i] # {}

\* set(segment['speaker'] for segment in segments_data.get('segments', []))
SpeakerSet(doc) ==
    IF doc.has_segments THEN {doc.segments[i].speaker : i \in 1..Len(doc.segments)}
    ELSE {}

(***************************************************************************)
(* Inputs of a run.                                                        *)
(***************************************************************************)
SpeakerIds == {"A", "B"}

\* amplitudes of the test waveforms: loud enough to clip when doubled, the most
\* negative sample, a quiet sample and a silent one
Samples == <<20000, -32768, 1, 0>>
\* <<channels, frame_rate>> of the test waveforms
Formats == <<<<2, 44100>>, <<1, 8000>>>>

TestWave(n, k) ==
    Waveform([i \in 1..n |-> Samples[((i - 1 + k) % Len(Samples)) + 1]],
             Formats[k + 1][1], Formats[k + 1][2])

SourceFiles ==
    {[kind |-> "missing"], [kind |-> "unreadable"]}
      \cup {TestWave(n, k) : n \in 1..MaxLen, k \in 0..(Len(Formats) - 1)}

Segments == [speaker : SpeakerIds, start : RunTimecodes, end : RunTimecodes]

\* the segment lists of at most MaxSegs segments; speaker identifiers are opaque
\* labels, so a list is taken up to renaming: its first speaker is called "A"
SegmentLists ==
    {segs \in UNION {[1..n -> Segments] : n \in 0..MaxSegs} :
        segs = <<>> \/ segs[1].speaker = "A"}

Documents ==
    {[kind |-> "invalid"], [kind |-> "object", has_segments |-> FALSE, segments |-> <<>>]}
      \cup {[kind |-> "object", has_segments |-> TRUE, segments |-> segs] :
              segs \in SegmentLists}

NoOutputs == [sp \in {} |-> silent(0)]

Init ==
    /\ audio_file \in SourceFiles
    /\ json_file \in Documents
    /\ pc = "start"
    /\ error = "none"
    /\ speakers = {}
    /\ outputs = NoOutputs
    /\ exported = <<>>
    /\ time_str = BadTime
    /\ total_milliseconds = 0
    /\ ppc = "idle"

Fail(kind) ==
    /\ pc' = "failed"
    /\ error' = kind
    /\ UNCHANGED <<audio_file, json_file, speakers, outputs, exported>>

EnterLoop ==
    /\ pc' = "loop"
    /\ speakers' = SpeakerSet(json_file)
    /\ UNCHANGED <<audio_file, json_file, error, outputs, exported>>

(***************************************************************************)
(* speaker_splitter.process_audio up to its loop: sys.exit on a missing    *)
(* audio file, on undecodable JSON and on an empty speaker set; a KeyError *)
(* ends the run where it is raised (the front ends catch it and report a   *)
(* processing error).                                                      *)
(***************************************************************************)
ProcessAudio ==
    /\ pc = "start"
    /\ IF audio_file.kind = "missing" THEN Fail("audio_not_found")
       ELSE IF json_file.kind = "invalid" THEN Fail("invalid_json")
       ELSE IF LacksSpeaker(json_file) THEN Fail("key_error")
       ELSE IF SpeakerSet(json_file) = {} THEN Fail("no_speakers")
       ELSE EnterLoop
    /\ UNCHANGED parseVars

(***************************************************************************)
(* app.split_speakers up to its loop: the document is validated, then the  *)
(* audio is loaded once.                                                   *)
(***************************************************************************)
SplitSpeakers ==
    /\ pc = "start"
    /\ IF json_file.kind = "invalid" THEN Fail("invalid_json")
       ELSE IF ~json_file.has_segments THEN Fail("no_segments_field")
       ELSE IF json_file.segments = <<>> THEN Fail("no_speakers")
       ELSE IF audio_file.kind # "wav" THEN Fail("audio_load")
       ELSE IF LacksSpeaker(json_file) THEN Fail("key_error")
       ELSE IF SpeakerSet(json_file) = {} THEN Fail("no_speakers")
       ELSE EnterLoop
    /\ UNCHANGED parseVars

(***************************************************************************)
(* web_app.upload_files up to its loop (manual mode, a JSON file given).   *)
(***************************************************************************)
UploadFiles ==
    /\ pc = "start"
    /\ IF audio_file.kind = "missing" THEN Fail("audio_not_found")
       ELSE IF json_file.kind = "invalid" THEN Fail("invalid_json")
       ELSE IF LacksSpeaker(json_file) THEN Fail("key_error")
       ELSE IF SpeakerSet(json_file) = {} THEN Fail("no_speakers")
       ELSE EnterLoop
    /\ UNCHANGED parseVars

(***************************************************************************)
(* One iteration of the loop over the speaker set: create_speaker_audio    *)
(* for a speaker not yet processed (a Python set is iterated in no fixed   *)
(* order), exported under the speaker's output path.  After the last       *)
(* speaker the loop ends and the run reports success.  A failure inside an *)
(* iteration ends the run and leaves the files already exported in place.  *)
(***************************************************************************)
CreateSpeakerAudio ==
    /\ pc = "loop"
    /\ \E speaker \in speakers :
         IF audio_file.kind # "wav" THEN Fail("audio_load")
         ELSE IF LacksTimes(json_file, speaker) THEN Fail("key_error")
         ELSE /\ outputs' = (speaker :> SpeakerTrack(audio_file, json_file.segments, speaker))
                               @@ outputs
              /\ exported' = Append(exported, speaker)
              /\ speakers' = speakers \ {speaker}
              /\ pc' = IF speakers = {speaker} THEN "done" ELSE "loop"
              /\ UNCHANGED <<audio_file, json_file, error>>
    /\ UNCHANGED parseVars

Next ==
    \/ ProcessAudio
    \/ SplitSpeakers
    \/ UploadFiles
    \/ CreateSpeakerAudio

Spec == Init /\ [][Next]_vars

(***************************************************************************)
(* create_speaker_audio on its own: one call for a source file, a segment  *)
(* list and a speaker_id, which need not be the speaker of any segment.    *)
(***************************************************************************)
InitCompose ==
    /\ audio_file \in SourceFiles \ {[kind |-> "missing"]}
    /\ json_file \in {doc \in Documents : doc.kind = "object" /\ doc.has_segments}
    /\ pc = "loop"
    /\ error = "none"
    /\ \E speaker_id \in SpeakerIds : speakers = {speaker_id}
    /\ outputs = NoOutputs
    /\ exported = <<>>
    /\ time_str = BadTime
    /\ total_milliseconds = 0
    /\ ppc = "idle"

NextCompose == CreateSpeakerAudio

SpecCompose == InitCompose /\ [][NextCompose]_vars

(***************************************************************************)
(* Runs over documents as json.load may return them: the speaker of a      *)
(* segment may be the empty string, and a segment record may lack one of   *)
(* its keys.                                                               *)
(***************************************************************************)
RecordSpeakers == {"", "A", "B"}
RecordTimecodes == {Timecode(0, 0, 0, 0), Timecode(0, 0, 0, 1)}

Records ==
    [speaker : RecordSpeakers, start : RecordTimecodes, end : RecordTimecodes]
      \cup [start : RecordTimecodes, end : RecordTimecodes]
      \cup [speaker : RecordSpeakers, end : RecordTimecodes]
      \cup [speaker : RecordSpeakers, start : RecordTimecodes]

RecordLists == UNION {[1..n -> Records] : n \in 0..MaxSegs}

RecordDocuments ==
    {[kind |-> "invalid"], [kind |-> "object", has_segments |-> FALSE, segments |-> <<>>]}
      \cup {[kind |-> "object", has_segments |-> TRUE, segments |-> segs] :
              segs \in RecordLists}

InitDocuments ==
    /\ audio_file \in SourceFiles
    /\ json_file \in RecordDocuments
    /\ pc = "start"
    /\ error = "none"
    /\ speakers = {}
    /\ outputs = NoOutputs
    /\ exported = <<>>
    /\ time_str = BadTime
    /\ total_milliseconds = 0
    /\ ppc = "idle"

SpecDocuments == InitDocuments /\ [][Next]_vars

(***************************************************************************)
(* The parser on its own: timestamp_to_milliseconds applied to one string. *)
(***************************************************************************)
ParseFields == {IntField(0), IntField(1), DecField(1, 1), JunkField}

\* the strings given to the parser: every HH:MM:SS,mmm within the bounds, and every
\* string of one to four fields drawn from ParseFields
IsParseInput(ts) ==
    \/ \E h \in 0..MaxHours, m \in 0..MaxMinutes, s \in 0..MaxSeconds, ms \in 0..999 :
         ts = Timecode(h, m, s, ms)
    \/ \E n \in 1..4 : ts \in [1..n -> ParseFields]

InitParse ==
    /\ IsParseInput(time_str)
    /\ total_milliseconds = 0
    /\ ppc = "call"
    /\ audio_file = [kind |-> "missing"]
    /\ json_file = [kind |-> "invalid"]
    /\ pc = "idle"
    /\ error = "none"
    /\ speakers = {}
    /\ outputs = NoOutputs
    /\ exported = <<>>

TimestampToMilliseconds ==
    /\ ppc = "call"
    /\ total_milliseconds' = timestamp_to_milliseconds(time_str)
    /\ ppc' = "ret"
    /\ UNCHANGED time_str
    /\ UNCHANGED runVars

NextParse == TimestampToMilliseconds

SpecParse == InitParse /\ [][NextParse]_vars

(***************************************************************************)
(* Vocabulary of the properties.  Offsets and indices are milliseconds;    *)
(* the interval [start, end) of a segment is the pair of offsets the       *)
(* parser yields for its timecodes.                                        *)
(***************************************************************************)
SourceLen == Len(audio_file.data)
SourceAt(i) == audio_file.data[i + 1]
TrackAt(sp, i) == outputs[sp].data[i + 1]
Indices == 0..(SourceLen - 1)

SegmentCount == IF json_file.kind = "object" THEN Len(json_file.segments) ELSE 0
StartOf(k) == OffsetOf[json_file.segments[k].start]
EndOf(k) == OffsetOf[json_file.segments[k].end]
SpeakerOf(k) == json_file.segments[k].speaker
Covers(k, i) == StartOf(k) <= i /\ i < EndOf(k)

\* the segments of speaker sp that cover index i
Covering(sp, i) == {k \in 1..SegmentCount : SpeakerOf(k) = sp /\ Covers(k, i)}
\* all segments that cover index i
CoveringAny(i) == {k \in 1..SegmentCount : Covers(k, i)}

IsMalformed(ts) == Len(ts) # 3 \/ \E j \in 1..Len(ts) : ts[j].k = "junk"
HasMalformed(k) ==
    IsMalformed(json_file.segments[k].start) \/ IsMalformed(json_file.segments[k].end)

\* the 16-bit sample range
Clip16(x) == IF x > 32767 THEN 32767 ELSE IF x < -32768 THEN -32768 ELSE x

(***************************************************************************)
(* C1.  Every track built has exactly the duration of the source waveform, *)
(* whatever the segment list: overlapping segments, segments past the end  *)
(* of the source, segments with end before start, malformed timecodes.     *)
(***************************************************************************)
C1_DurationInvariant ==
    \A sp \in DOMAIN outputs : AudioLen(outputs[sp]) = AudioLen(audio_file)

\* a track was built from a malformed segment and a segment that lies past the end
\* of the source with its end before its start
C1_Witness ==
    /\ pc = "done"
    /\ \E sp \in DOMAIN outputs :
         /\ \E k \in 1..SegmentCount : SpeakerOf(k) = sp /\ HasMalformed(k)
         /\ \E k \in 1..SegmentCount :
              /\ SpeakerOf(k) = sp
              /\ ~HasMalformed(k)
              /\ StartOf(k) > SourceLen
              /\ EndOf(k) < StartOf(k)
         /\ AudioLen(outputs[sp]) = SourceLen

(***************************************************************************)
(* C2.  In speaker S's track every index outside all segments of S is      *)
(* silent: segments of other speakers never contribute to S's track.       *)
(***************************************************************************)
C2_SilenceElsewhere ==
    \A sp \in DOMAIN outputs : \A i \in Indices :
        Covering(sp, i) = {} => TrackAt(sp, i) = 0

\* S's track is silent at an index where the source is not and where another
\* speaker's segment lies
C2_Witness ==
    \E sp \in DOMAIN outputs : \E i \in Indices :
        /\ Covering(sp, i) = {}
        /\ CoveringAny(i) # {}
        /\ SourceAt(i) # 0
        /\ TrackAt(sp, i) = 0

(***************************************************************************)
(* C3.  At an index inside exactly one segment of S, S's track equals the  *)
(* source at the same index: the extracted range sits at its original      *)
(* position.                                                               *)
(***************************************************************************)
C3_ContentPreserved ==
    \A sp \in DOMAIN outputs : \A i \in Indices :
        Cardinality(Covering(sp, i)) = 1 => TrackAt(sp, i) = SourceAt(i)

\* a segment that starts after offset 0 put non-silent source audio into the track
C3_Witness ==
    \E sp \in DOMAIN outputs : \E i \in Indices :
        /\ i > 0
        /\ Cardinality(Covering(sp, i)) = 1
        /\ \A k \in Covering(sp, i) : StartOf(k) = i
        /\ Covering(sp, i - 1) = {}
        /\ SourceAt(i) # 0
        /\ TrackAt(sp, i) = SourceAt(i)

(***************************************************************************)
(* C4.  At an index covered by two overlapping segments of S, S's track is *)
(* the saturating sum of the two source contributions.                     *)
(***************************************************************************)
C4_AdditiveOverlap ==
    \A sp \in DOMAIN outputs : \A i \in Indices :
        Cardinality(Covering(sp, i)) = 2 =>
            TrackAt(sp, i) = Clip16(SourceAt(i) + SourceAt(i))

\* two segments of S overlap at an index where the sum clips
C4_Witness ==
    \E sp \in DOMAIN outputs : \E i \in Indices :
        /\ Cardinality(Covering(sp, i)) = 2
        /\ SourceAt(i) + SourceAt(i) > 32767
        /\ TrackAt(sp, i) = 32767

(***************************************************************************)
(* C5.  Speaker partition.  Combining the tracks means mixing them: the    *)
(* sum of their amplitudes at each index (where speakers are mutually      *)
(* exclusive at most one track is non-silent at an index).                 *)
(***************************************************************************)
RECURSIVE SumTracks(_, _)
SumTracks(sps, i) ==
    IF sps = {} THEN 0
    ELSE LET sp == CHOOSE x \in sps : TRUE
         IN  TrackAt(sp, i) + SumTracks(sps \ {sp}, i)

Combined(i) == SumTracks(DOMAIN outputs, i)

\* no two segments of different speakers overlap in time
MutuallyExclusive ==
    \A j, k \in 1..SegmentCount :
        SpeakerOf(j) # SpeakerOf(k) =>
            ~(Max(StartOf(j), StartOf(k)) < Min(EndOf(j), EndOf(k)))

\* C5 as stated: when no two segments of different speakers overlap, the combined
\* tracks reconstruct the source at every index of the source
C5_AsStated ==
    (pc = "done" /\ MutuallyExclusive) =>
        \A i \in Indices : Combined(i) = SourceAt(i)

\* C5 amended: when no two segments of different speakers overlap, the combined
\* tracks equal the source at every index that exactly one segment covers, and are
\* silent at every index that no segment covers
C5_Partition ==
    (pc = "done" /\ MutuallyExclusive) =>
        \A i \in Indices :
            /\ Cardinality(CoveringAny(i)) = 1 => Combined(i) = SourceAt(i)
            /\ CoveringAny(i) = {} => Combined(i) = 0

\* two speakers with one segment each, side by side, rebuilt a non-silent source
C5_Witness ==
    /\ pc = "done"
    /\ MutuallyExclusive
    /\ Cardinality(DOMAIN outputs) = 2
    /\ SourceLen = 2
    /\ \A i \in Indices :
         /\ Cardinality(CoveringAny(i)) = 1
         /\ SourceAt(i) # 0
         /\ Combined(i) = SourceAt(i)
    /\ \A sp \in DOMAIN outputs : \E i \in Indices : TrackAt(sp, i) # 0

(***************************************************************************)
(* C6.  For every well-formed timecode HH:MM:SS,mmm the parser returns     *)
(* exactly hours*3600000 + minutes*60000 + SS*1000 + mmm.                  *)
(***************************************************************************)
C6_ExactMilliseconds ==
    (ppc = "ret" /\ IsWellFormed(time_str)) =>
        total_milliseconds = ExactMs(time_str)

(***************************************************************************)
(* C7.  On a malformed timecode (a field count other than three, or a      *)
(* non-numeric component) the parser returns 0.                            *)
(***************************************************************************)
C7_MalformedGivesZero ==
    (ppc = "ret" /\ IsMalformed(time_str)) => total_milliseconds = 0

(***************************************************************************)
(* C8.  One segment of S has a malformed start or end timecode.            *)
(***************************************************************************)
\* the segments of speaker sp with a malformed timecode
MalformedOf(sp) == {k \in 1..SegmentCount : SpeakerOf(k) = sp /\ HasMalformed(k)}
\* the well-formed segments of speaker sp that cover index i
WellFormedCovering(sp, i) == {k \in Covering(sp, i) : ~HasMalformed(k)}

\* a run on a decodable source and a document that names a speaker
ValidInputs ==
    /\ audio_file.kind = "wav"
    /\ json_file.kind = "object"
    /\ SpeakerSet(json_file) # {}

ClampedStart(k) == Min(StartOf(k), SourceLen)
ClampedEnd(k) == Min(EndOf(k), SourceLen)
ClampedCovering(sp, i) ==
    {k \in 1..SegmentCount :
        SpeakerOf(k) = sp /\ ClampedStart(k) <= i /\ i < ClampedEnd(k)}

OutOfRange(k) == StartOf(k) > SourceLen \/ EndOf(k) > SourceLen
EmptyRange(k) == EndOf(k) <= StartOf(k)

C9_ClampedNotFatal ==
    /\ (ValidInputs /\ \E k \in 1..SegmentCount : OutOfRange(k) \/ EmptyRange(k))
          => pc # "failed"
    /\ \A sp \in DOMAIN outputs :
         /\ AudioLen(outputs[sp]) = SourceLen
         /\ \A i \in Indices :
              TrackAt(sp, i) = Clip16(Cardinality(ClampedCovering(sp, i)) * SourceAt(i))

\* the run completed on a speaker with a segment that starts inside the source and
\* ends past it, and a segment whose end is before its start
C9_Witness ==
    /\ pc = "done"
    /\ \E sp \in DOMAIN outputs :
         /\ \E k \in 1..SegmentCount :
              /\ SpeakerOf(k) = sp
              /\ StartOf(k) < SourceLen
              /\ EndOf(k) > SourceLen
              /\ TrackAt(sp, SourceLen - 1) = SourceAt(SourceLen - 1)
              /\ SourceAt(SourceLen - 1) # 0
         /\ \E k \in 1..SegmentCount :
              SpeakerOf(k) = sp /\ ~HasMalformed(k) /\ EndOf(k) < StartOf(k)

(***************************************************************************)
(* C10.  A run produces exactly one track per distinct speaker of the      *)
(* segment list: none is skipped, none is produced twice, and none is      *)
(* produced for a value that is not the speaker of a segment.              *)
(***************************************************************************)
DocumentSpeakers == {SpeakerOf(k) : k \in 1..SegmentCount}
ExportedSet == {exported[j] : j \in 1..Len(exported)}

C10_OneTrackPerSpeaker ==
    /\ ExportedSet \subseteq DocumentSpeakers
    /\ Cardinality(ExportedSet) = Len(exported)
    /\ DOMAIN outputs = ExportedSet
    /\ pc = "done" => ExportedSet = DocumentSpeakers

\* a run over a document with two speakers completed with two tracks
C10_Witness ==
    /\ pc = "done"
    /\ Cardinality(DocumentSpeakers) = 2
    /\ Len(exported) = 2
    /\ DOMAIN outputs = DocumentSpeakers

(***************************************************************************)
(* C11.  A document whose segment list is empty makes the run fail with no *)
(* track produced, and the error reported for it is never the error        *)
(* reported for a document that cannot be decoded or has no segments       *)
(* field.                                                                  *)
(***************************************************************************)
EmptySegmentList ==
    json_file.kind = "object" /\ json_file.has_segments /\ json_file.segments = <<>>
UnusableDocument ==
    json_file.kind = "invalid" \/ (json_file.kind = "object" /\ ~json_file.has_segments)
\* the failure is about the document: the source audio was found and decoded, or
\* not looked at yet
DocumentError == error \notin {"none", "audio_not_found", "audio_load"}

C11_EmptyListDistinct ==
    pc = "failed" /\ DocumentError =>
        /\ EmptySegmentList => error = "no_speakers" /\ DOMAIN outputs = {}
        /\ UnusableDocument => error # "no_speakers"

(***************************************************************************)
(* C12.  A document in which no segment has a non-empty speaker identifier *)
(* is rejected: the run never enters its loop and produces no track.       *)
(***************************************************************************)
NoNamedSpeaker ==
    /\ json_file.kind = "object"
    /\ json_file.has_segments
    /\ \A k \in 1..Len(json_file.segments) :
         "speaker" \in DOMAIN json_file.segments[k] => json_file.segments[k].speaker = ""

C12_UnnamedRejected ==
    NoNamedSpeaker => pc \in {"start", "failed"} /\ DOMAIN outputs = {}

(***************************************************************************)
(* C13.  The tracks of a run are produced in the order in which their      *)
(* speakers first occur in the segment list.                               *)
(***************************************************************************)
RECURSIVE FirstOccurrences(_, _)
FirstOccurrences(k, seen) ==
    IF k > SegmentCount THEN <<>>
    ELSE IF SpeakerOf(k) \in seen THEN FirstOccurrences(k + 1, seen)
    ELSE <<SpeakerOf(k)>> \o FirstOccurrences(k + 1, seen \cup {SpeakerOf(k)})

C13_FirstOccurrenceOrder ==
    exported # <<>> =>
        exported = SubSeq(FirstOccurrences(1, {}), 1, Len(exported))

(***************************************************************************)
(* C14.  The track of a speaker does not depend on the order of the        *)
(* segment list: building it from any permutation of the list gives the    *)
(* track the run produced, sample for sample, overlapping segments and     *)
(* clipped sums included.                                                  *)
(***************************************************************************)
Permuted(p) == [k \in 1..SegmentCount |-> json_file.segments[p[k]]]

C14_OrderIndependent ==
    \A sp \in DOMAIN outputs :
        \A p \in Permutations(1..SegmentCount) :
            SpeakerTrack(audio_file, Permuted(p), sp) = outputs[sp]

\* a track was built from two different segments of its speaker that overlap at an
\* index where the sum clips
C14_Witness ==
    \E sp \in DOMAIN outputs :
        \E j, k \in 1..SegmentCount :
            /\ json_file.segments[j] # json_file.segments[k]
            /\ SpeakerOf(j) = sp /\ SpeakerOf(k) = sp
            /\ ~HasMalformed(j) /\ ~HasMalformed(k)
            /\ \E i \in Indices :
                 /\ Covers(j, i) /\ Covers(k, i)
                 /\ 2 * SourceAt(i) # Clip16(2 * SourceAt(i))
                 /\ TrackAt(sp, i) = Clip16(2 * SourceAt(i))

(***************************************************************************)
(* C15.  A run that ends with an error has written no track: errors of the *)
(* document (undecodable, a segment record without one of its keys) and of *)
(* the source audio (missing, undecodable) stop the run before the first   *)
(* export.  Every failure of a run is of one of these kinds, bad timecodes *)
(* and out-of-range segments being absorbed.                               *)
(***************************************************************************)
C15_NoPartialOutput ==
    pc = "failed" => exported = <<>> /\ DOMAIN outputs = {}

(***************************************************************************)
(* C16.  The silent track a speaker's track starts from, and the track     *)
(* exported, have the channel count and the frame rate of the source.      *)
(***************************************************************************)
SameFormat(seg) ==
    seg.channels = audio_file.channels /\ seg.frame_rate = audio_file.frame_rate

C16_SourceFormat ==
    \A sp \in DOMAIN outputs :
        SameFormat(silent(AudioLen(audio_file))) /\ SameFormat(outputs[sp])

====
